---- MODULE Spec2Model ----
(***************************************************************************)
(* kubernetes-change-storage-class: the handler of src/main.ts as a state  *)
(* machine.  One run of the tool against a cluster store: discovery, the   *)
(* six-step plan, the confirm gate, the two wait loops.  Every await of    *)
(* the handler is one action; the cluster answers each call atomically.    *)
(* Optional values (undefined in the source) are <<>>, present ones <<v>>. *)
(***************************************************************************)
EXTENDS Integers, Sequences, FiniteSets, TLC

VARIABLES claims, pvs, clusterPods, jobs,
          pc, i, pvc, pv, pods, runID, listed,
          calls, out, prompts, answers, invoked, results,
          claimReads, jobReads

cluster == <<claims, pvs, clusterPods, jobs>>
program == <<pc, i, pvc, pv, pods, runID, listed>>
history == <<calls, out, prompts, answers, invoked, results, claimReads, jobReads>>
vars == <<claims, pvs, clusterPods, jobs, pc, i, pvc, pv, pods, runID, listed,
          calls, out, prompts, answers, invoked, results, claimReads, jobReads>>

-----------------------------------------------------------------------------
(* Bounds of the model *)

MaxDeletionReads == 3
MaxJobReads == 3

-----------------------------------------------------------------------------
(* Command line and inputs *)

pvcName == "data"
namespaceName == "default"
newStorageClassName == "fast"

RunIDs == {"r1", "r2"}
Answers == {"Y", "y", "N", "", "yes", " Y", "Y "}

None == <<>>
Some(v) == <<v>>
Range(s) == {s[k] : k \in DOMAIN s}

-----------------------------------------------------------------------------
(* Objects of the cluster *)

ReservedPrefix == "pv.kubernetes.io/"

AnnotationChoices ==
    { None,
      Some({<<"pv.kubernetes.io/bound-by-controller", "yes">>, <<"team", "infra">>}),
      Some({<<"pv.kubernetes.io/bind-completed", "yes">>, <<"my.pv.kubernetes.io/owner", "ops">>}) }

OriginalClaim(ann) ==
    [metadata |-> [name |-> pvcName, namespace |-> namespaceName, uid |-> "uid-data",
                   labels |-> Some({<<"app", "db">>}), annotations |-> ann],
     spec |-> [storageClassName |-> Some("standard"), accessModes |-> Some(<<"ReadWriteOnce">>),
               resources |-> Some("1Gi"), volumeName |-> Some("pv-1"),
               volumeMode |-> Some("Filesystem")],
     deleting |-> FALSE]

Volume(name, phase, ref) ==
    [metadata |-> [name |-> name],
     spec |-> [claimRef |-> ref, persistentVolumeReclaimPolicy |-> "Delete"],
     status |-> [phase |-> phase]]

VolumeShapes ==
    { <<"Bound", Some([uid |-> "uid-data"])>>,
      <<"Bound", Some([uid |-> "uid-other"])>>,
      <<"Bound", None>>,
      <<"Released", Some([uid |-> "uid-data"])>> }

VolumeNames == <<"pv-1", "pv-2">>

VolumeListings ==
    {<<>>}
    \cup { <<Volume(VolumeNames[1], a[1], a[2])>> : a \in VolumeShapes }
    \cup { <<Volume(VolumeNames[1], a[1], a[2]), Volume(VolumeNames[2], b[1], b[2])>> :
             a \in VolumeShapes, b \in VolumeShapes }

Pod(name, volumes) == [metadata |-> [name |-> name], spec |-> [volumes |-> volumes]]

PodListings ==
    { <<>>,
      <<Pod("web-0", Some(<<None, Some(pvcName)>>))>> }

-----------------------------------------------------------------------------
(* Helpers of main.ts *)

RECURSIVE MountsOf(_, _)
MountsOf(volumes, name) ==
    IF volumes = <<>> THEN 0
    ELSE (IF Head(volumes) # None /\ Head(volumes)[1] = name THEN 1 ELSE 0)
         + MountsOf(Tail(volumes), name)

Repeat(x, n) == [k \in 1..n |-> x]

RECURSIVE getPodsMountingPVC(_, _)
getPodsMountingPVC(items, name) ==
    IF items = <<>> THEN <<>>
    ELSE LET pod == Head(items)
             volumes == IF pod.spec.volumes = None THEN <<>> ELSE pod.spec.volumes[1]
         IN  Repeat(pod, MountsOf(volumes, name)) \o getPodsMountingPVC(Tail(items), name)

\* Variant: the claim reference is not compared with the claim's uid.
RECURSIVE getPVForPVCAnyClaim(_, _)
getPVForPVCAnyClaim(items, claim) ==
    IF items = <<>> THEN None
    ELSE LET v == Head(items)
         IN  IF v.status.phase = "Bound" /\ v.spec.claimRef # None
             THEN Some(v)
             ELSE getPVForPVCAnyClaim(Tail(items), claim)

\* Variant: the phase of the volume is not tested.
RECURSIVE getPVForPVCAnyPhase(_, _)
getPVForPVCAnyPhase(items, claim) ==
    IF items = <<>> THEN None
    ELSE LET v == Head(items)
         IN  IF v.spec.claimRef # None /\ v.spec.claimRef[1].uid = claim.metadata.uid
             THEN Some(v)
             ELSE getPVForPVCAnyPhase(Tail(items), claim)

RECURSIVE getPVForPVC(_, _)
getPVForPVC(items, claim) ==
    IF items = <<>> THEN None
    ELSE LET v == Head(items)
         IN  IF /\ v.status.phase = "Bound"
                /\ v.spec.claimRef # None
                /\ v.spec.claimRef[1].uid = claim.metadata.uid
             THEN Some(v)
             ELSE getPVForPVC(Tail(items), claim)

-----------------------------------------------------------------------------
(* The plan and the sequencer *)

NumSteps == 6

StepEntry == <<"s1_patch", "s2_delete", "s3_create", "s4_patch", "s5_create", "s6_delete">>

Call(op, kind, name, path) == [op |-> op, kind |-> kind, name |-> name, path |-> path]
Line(msg, n) == [msg |-> msg, n |-> n]

Mutating(c) == c.op \in {"patch", "create", "delete"}

Init ==
    /\ \E ann \in AnnotationChoices, present \in BOOLEAN :
          claims = IF present THEN (pvcName :> OriginalClaim(ann)) ELSE <<>>
    /\ pvs \in VolumeListings
    /\ clusterPods \in PodListings
    /\ jobs = <<>>
    /\ pc = "readClaim"
    /\ i = 0
    /\ pvc = None
    /\ pv = None
    /\ pods = <<>>
    /\ runID = None
    /\ listed = None
    /\ calls = <<>>
    /\ out = <<Line("Gathering info...", 0)>>
    /\ prompts = <<>>
    /\ answers = <<>>
    /\ invoked = <<>>
    /\ results = <<>>
    /\ claimReads = <<>>
    /\ jobReads = <<>>


-----------------------------------------------------------------------------
(* Discovery: lines 83-99 *)

PlanBuilt(v) == v # None

Crash == pc' = "crashed"

ReadClaim ==
    /\ pc = "readClaim"
    /\ calls' = Append(calls, Call("read", "claim", pvcName, ""))
    /\ \E ok \in BOOLEAN :
          IF ok /\ pvcName \in DOMAIN claims
          THEN pvc' = Some(claims[pvcName]) /\ pc' = "listPVs"
          ELSE pvc' = pvc /\ Crash
    /\ UNCHANGED <<cluster, i, pv, pods, runID, listed>>
    /\ UNCHANGED <<out, prompts, answers, invoked, results, claimReads, jobReads>>

ListVolumes ==
    /\ pc = "listPVs"
    /\ calls' = Append(calls, Call("list", "volume", "*", ""))
    /\ \E ok \in BOOLEAN :
          IF ok
          THEN listed' = Some(pvs) /\ pv' = getPVForPVC(pvs, pvc[1]) /\ pc' = "listPods"
          ELSE listed' = listed /\ pv' = pv /\ Crash
    /\ UNCHANGED <<cluster, i, pvc, pods, runID>>
    /\ UNCHANGED <<out, prompts, answers, invoked, results, claimReads, jobReads>>

ListPods ==
    /\ pc = "listPods"
    /\ calls' = Append(calls, Call("list", "pod", namespaceName, ""))
    /\ \E ok \in BOOLEAN, id \in RunIDs :
          IF ok
          THEN /\ pods' = getPodsMountingPVC(clusterPods, pvcName)
               /\ runID' = Some(id)
               /\ IF PlanBuilt(pv)
                  THEN /\ out' = out \o <<Line("Done!", 0), Line("Here's what we've found", Len(pods')),
                                            Line("If you approve", NumSteps), Line("Ready to run Step", 1)>>
                       /\ prompts' = Append(prompts, 0)
                       /\ pc' = "prompt"
                  ELSE /\ out' = Append(out, Line("Done!", 0))
                       /\ prompts' = prompts
                       /\ pc' = "exited"
          ELSE /\ Crash
               /\ UNCHANGED <<pods, runID, out, prompts>>
    /\ UNCHANGED <<cluster, i, pvc, pv, listed>>
    /\ UNCHANGED <<answers, invoked, results, claimReads, jobReads>>

-----------------------------------------------------------------------------
(* The step loop: lines 264-297 *)

\* Variant: the answer is compared without regard to case.
ConfirmedAnyCase(answer) == answer \in {"Y", "y"}

Confirmed(answer) == answer = "Y"

\* Variant: the loop counter is advanced twice.
NextIndexTwice(k) == k + 2

NextIndex(k) == k + 1

OnSuccess(k, o) ==
    IF NextIndex(k) < NumSteps
    THEN [pc |-> "prompt", i |-> NextIndex(k),
          out |-> o \o <<Line("Step was successful", k + 1), Line("Ready to run Step", NextIndex(k) + 1)>>,
          prompts |-> Append(prompts, NextIndex(k))]
    ELSE [pc |-> "completed", i |-> NextIndex(k),
          out |-> o \o <<Line("Step was successful", k + 1), Line("Finished!", 0)>>,
          prompts |-> prompts]

OnFailure(k, o) ==
    [pc |-> "aborted", i |-> k, out |-> Append(o, Line("Step failed. Quitting.", k + 1)),
     prompts |-> prompts]

\* Variant: no try/catch around step.run(), the fault leaves the handler.
OnFaultEscapes(k, o) ==
    [pc |-> "crashed", i |-> k, out |-> o, prompts |-> prompts]

\* Variant: the catch reports the fault and the loop goes on.
OnFaultContinues(k, o) == OnSuccess(k, Append(o, Line("Step failed. Quitting.", k + 1)))

OnFault(k, o) ==
    [pc |-> "aborted", i |-> k, out |-> Append(o, Line("Step failed. Quitting.", k + 1)),
     prompts |-> prompts]

\* Variant: the value returned by step.run() is not tested.
AfterStepNoReturn(k, res, o) ==
    IF res = "fault" THEN OnFault(k, o) ELSE OnSuccess(k, o)

AfterStep(k, res, o) ==
    IF res = "ok" THEN OnSuccess(k, o)
    ELSE IF res = "fail" THEN OnFailure(k, o)
    ELSE OnFault(k, o)

Finish(res, o) ==
    /\ results' = Append(results, res)
    /\ LET n == AfterStep(i, res, o)
       IN  pc' = n.pc /\ i' = n.i /\ out' = n.out /\ prompts' = n.prompts

Prompt ==
    /\ pc = "prompt"
    /\ \E answer \in Answers :
          /\ answers' = Append(answers, answer)
          /\ IF Confirmed(answer)
             THEN invoked' = Append(invoked, i) /\ pc' = StepEntry[i + 1]
             ELSE invoked' = invoked /\ pc' = "declined"
    /\ UNCHANGED <<cluster, i, pvc, pv, pods, runID, listed>>
    /\ UNCHANGED <<calls, out, prompts, results, claimReads, jobReads>>

-----------------------------------------------------------------------------
(* The cluster store behind the resource API *)

Without(f, n) == [m \in (DOMAIN f) \ {n} |-> f[m]]

Field(r, f) == IF f \in DOMAIN r THEN r[f] ELSE None

Stored(namespace, body) ==
    [metadata |-> [name |-> body.metadata.name, namespace |-> namespace,
                   uid |-> "uid-new-" \o body.metadata.name,
                   labels |-> Field(body.metadata, "labels"),
                   annotations |-> Field(body.metadata, "annotations")],
     spec |-> body.spec,
     deleting |-> FALSE]

VolumeNamed(items, name) == {k \in DOMAIN items : items[k].metadata.name = name}

ReclaimPolicyPatch == [op |-> "replace", path |-> "/spec/persistentVolumeReclaimPolicy", value |-> "Retain"]

ClaimRefPatch == [op |-> "remove", path |-> "/spec/claimRef", value |-> ""]

ApplyPatch(v, patch) ==
    IF patch.op = "replace" /\ patch.path = "/spec/persistentVolumeReclaimPolicy"
    THEN [v EXCEPT !.spec.persistentVolumeReclaimPolicy = patch.value]
    ELSE IF patch.op = "remove" /\ patch.path = "/spec/claimRef"
    THEN [v EXCEPT !.spec.claimRef = None]
    ELSE v

\* Variant: the patch is applied to every volume of the cluster.
PatchVolumeAll(items, name, patch) ==
    [k \in DOMAIN items |-> ApplyPatch(items[k], patch)]

PatchVolume(items, name, patch) ==
    [k \in DOMAIN items |-> IF items[k].metadata.name = name THEN ApplyPatch(items[k], patch) ELSE items[k]]

-----------------------------------------------------------------------------
(* Bodies built by the steps: lines 147-161, 177-187, 192-219 *)

\* Variant: the name of the temporary claim does not hold the run token.
TempClaimNameFixed(id) == "csc-old-data"

TempClaimName(id) == "csc-" \o id \o "-old-data"

JobName(id) == "csc-" \o id \o "-copy-data"

StartsWith(s, prefix) == Len(s) >= Len(prefix) /\ SubSeq(s, 1, Len(prefix)) = prefix

\* Variant: the negation of the filter is missing.
FilterAnnotationsKeepsReserved(entries) == {e \in entries : StartsWith(e[1], ReservedPrefix)}

FilterAnnotations(entries) == {e \in entries : ~StartsWith(e[1], ReservedPrefix)}

\* Variant: the storage class of the spread spec is not overridden.
ReplacementClaimSameClass(claim, class) ==
    [metadata |-> [namespace |-> claim.metadata.namespace,
                   name |-> claim.metadata.name,
                   labels |-> claim.metadata.labels,
                   annotations |-> Some(FilterAnnotations(claim.metadata.annotations[1]))],
     spec |-> [claim.spec EXCEPT !.volumeName = None]]

\* Variant: the volume name of the spread spec is not cleared.
ReplacementClaimKeepsVolume(claim, class) ==
    [metadata |-> [namespace |-> claim.metadata.namespace,
                   name |-> claim.metadata.name,
                   labels |-> claim.metadata.labels,
                   annotations |-> Some(FilterAnnotations(claim.metadata.annotations[1]))],
     spec |-> [claim.spec EXCEPT !.storageClassName = Some(class)]]

ReplacementClaim(claim, class) ==
    [metadata |-> [namespace |-> claim.metadata.namespace,
                   name |-> claim.metadata.name,
                   labels |-> claim.metadata.labels,
                   annotations |-> Some(FilterAnnotations(claim.metadata.annotations[1]))],
     spec |-> [claim.spec EXCEPT !.storageClassName = Some(class), !.volumeName = None]]

\* Variant: undefined annotations are read as an empty map.
Step3BodyDefaultsAnnotations(claim, class) ==
    Some(ReplacementClaim([claim EXCEPT !.metadata.annotations = IF @ = None THEN Some({}) ELSE @],
                          class))

\* Object.entries(undefined) throws before the create call is made.
Step3Body(claim, class) ==
    IF claim.metadata.annotations = None THEN None ELSE Some(ReplacementClaim(claim, class))

\* Variant: the temporary claim asks for the new storage class.
TemporaryClaimNewClass(claim, v, id) ==
    [metadata |-> [name |-> "csc-" \o id \o "-old-data"],
     spec |-> [storageClassName |-> Some(newStorageClassName),
               accessModes |-> claim.spec.accessModes,
               resources |-> claim.spec.resources,
               volumeName |-> Some(v.metadata.name)]]

TemporaryClaim(claim, v, id) ==
    [metadata |-> [name |-> TempClaimName(id)],
     spec |-> [storageClassName |-> claim.spec.storageClassName,
               accessModes |-> claim.spec.accessModes,
               resources |-> claim.spec.resources,
               volumeName |-> Some(v.metadata.name)]]

CopyJob(claim, id) ==
    [metadata |-> [name |-> JobName(id)],
     spec |-> [backoffLimit |-> 0,
               volumes |-> [old |-> TempClaimName(id), new |-> claim.metadata.name]]]

-----------------------------------------------------------------------------
(* The two wait loops: lines 119-140 and 223-242 *)

\* Variant: the loop is left on any answer of the read, not only on 404.
DeletionWaitResultAnyAnswer(read) == IF read # "error" THEN "Succeeded" ELSE "Pending"

\* Variant: the break on 404 is missing.
DeletionWaitResultNoBreak(read) == "Pending"

DeletionWaitResult(read) == IF read = "notfound" THEN "Succeeded" ELSE "Pending"

OrZero(counter) == IF counter = None THEN 0 ELSE counter[1]

Counter(status, f) == IF status = None THEN None ELSE status[1][f]

\* Variant: the succeeded counter is tested before the failed counter.
JobWaitResultSucceededFirst(status) ==
    IF OrZero(Counter(status, "succeeded")) > 0 THEN "Succeeded"
    ELSE IF OrZero(Counter(status, "failed")) > 0 THEN "Failed"
    ELSE "Pending"

JobWaitResult(status) ==
    IF OrZero(Counter(status, "failed")) > 0 THEN "Failed"
    ELSE IF OrZero(Counter(status, "succeeded")) > 0 THEN "Succeeded"
    ELSE "Pending"

\* Variant: step 5 returns true like the other steps.
Step5ReturnTrue(result) == "ok"

Step5Return(result) == IF result = "Succeeded" THEN "ok" ELSE "fail"

JobStatus(f, s) == Some([failed |-> f, succeeded |-> s])

JobStatuses ==
    { None, JobStatus(Some(0), Some(0)),
      JobStatus(Some(0), Some(1)), JobStatus(None, Some(1)),
      JobStatus(Some(1), Some(0)), JobStatus(Some(1), None), JobStatus(Some(1), Some(1)) }

-----------------------------------------------------------------------------
(* Step 1: lines 101-115 *)

S1Patch ==
    /\ pc = "s1_patch"
    /\ calls' = Append(calls, Call("patch", "volume", pv[1].metadata.name,
                                   ReclaimPolicyPatch.op \o " " \o ReclaimPolicyPatch.path))
    /\ \E ok \in BOOLEAN :
          IF ok /\ VolumeNamed(pvs, pv[1].metadata.name) # {}
          THEN /\ pvs' = PatchVolume(pvs, pv[1].metadata.name, ReclaimPolicyPatch)
               /\ Finish("ok", out)
          ELSE /\ pvs' = pvs
               /\ Finish("fault", out)
    /\ UNCHANGED <<claims, clusterPods, jobs, pvc, pv, pods, runID, listed>>
    /\ UNCHANGED <<answers, invoked, claimReads, jobReads>>

(* Step 2: lines 116-145 *)

S2Delete ==
    /\ pc = "s2_delete"
    /\ calls' = Append(calls, Call("delete", "claim", pvc[1].metadata.name, ""))
    /\ \E ok \in BOOLEAN :
          IF ok /\ pvc[1].metadata.name \in DOMAIN claims
          THEN /\ claims' = [claims EXCEPT ![pvc[1].metadata.name].deleting = TRUE]
               /\ pc' = "s2_listPods"
               /\ UNCHANGED <<i, out, prompts, results>>
          ELSE /\ claims' = claims
               /\ Finish("fault", out)
    /\ UNCHANGED <<pvs, clusterPods, jobs, pvc, pv, pods, runID, listed>>
    /\ UNCHANGED <<answers, invoked, claimReads, jobReads>>

S2ListPods ==
    /\ pc = "s2_listPods"
    /\ Len(claimReads) < MaxDeletionReads
    /\ calls' = Append(calls, Call("list", "pod", namespaceName, ""))
    /\ \E ok \in BOOLEAN :
          IF ok
          THEN /\ pods' = getPodsMountingPVC(clusterPods, pvcName)
               /\ out' = Append(out, Line("Waiting for the deletion to complete", Len(pods')))
               /\ pc' = "s2_read"
               /\ UNCHANGED <<i, prompts, results>>
          ELSE /\ pods' = pods
               /\ Finish("fault", out)
    /\ UNCHANGED <<cluster, pvc, pv, runID, listed>>
    /\ UNCHANGED <<answers, invoked, claimReads, jobReads>>

S2Read ==
    /\ pc = "s2_read"
    /\ Len(claimReads) < MaxDeletionReads
    /\ calls' = Append(calls, Call("read", "claim", pvc[1].metadata.name, ""))
    /\ \E failure \in BOOLEAN :
          LET read == IF failure THEN "error"
                      ELSE IF pvc[1].metadata.name \in DOMAIN claims THEN "exists"
                      ELSE "notfound"
              result == DeletionWaitResult(read)
          IN  /\ claimReads' = Append(claimReads, read)
              /\ IF result = "Succeeded" THEN Finish("ok", Append(out, Line("\n", 0)))
                 ELSE IF result = "Pending"
                      THEN pc' = "s2_listPods" /\ UNCHANGED <<i, out, prompts, results>>
                      ELSE Finish("fault", out)
    /\ UNCHANGED <<cluster, pvc, pv, pods, runID, listed>>
    /\ UNCHANGED <<answers, invoked, jobReads>>

(* Step 3: lines 146-164 *)

S3Create ==
    /\ pc = "s3_create"
    /\ IF Step3Body(pvc[1], newStorageClassName) = None
       THEN /\ Finish("fault", out)
            /\ UNCHANGED <<claims, calls>>
       ELSE /\ calls' = Append(calls, Call("create", "claim", pvc[1].metadata.name, ""))
            /\ \E ok \in BOOLEAN :
                  IF ok /\ pvc[1].metadata.name \notin DOMAIN claims
                  THEN /\ claims' = claims @@ (pvc[1].metadata.name :>
                                       Stored(pvc[1].metadata.namespace,
                                              Step3Body(pvc[1], newStorageClassName)[1]))
                       /\ Finish("ok", out)
                  ELSE /\ claims' = claims
                       /\ Finish("fault", out)
    /\ UNCHANGED <<pvs, clusterPods, jobs, pvc, pv, pods, runID, listed>>
    /\ UNCHANGED <<answers, invoked, claimReads, jobReads>>

(* Step 4: lines 165-190 *)

S4Patch ==
    /\ pc = "s4_patch"
    /\ calls' = Append(calls, Call("patch", "volume", pv[1].metadata.name,
                                   ClaimRefPatch.op \o " " \o ClaimRefPatch.path))
    /\ \E ok \in BOOLEAN :
          IF /\ ok
             /\ \E k \in VolumeNamed(pvs, pv[1].metadata.name) : pvs[k].spec.claimRef # None
          THEN /\ pvs' = PatchVolume(pvs, pv[1].metadata.name, ClaimRefPatch)
               /\ pc' = "s4_create"
               /\ UNCHANGED <<i, out, prompts, results>>
          ELSE /\ pvs' = pvs
               /\ Finish("fault", out)
    /\ UNCHANGED <<claims, clusterPods, jobs, pvc, pv, pods, runID, listed>>
    /\ UNCHANGED <<answers, invoked, claimReads, jobReads>>

S4Create ==
    /\ pc = "s4_create"
    /\ calls' = Append(calls, Call("create", "claim", TempClaimName(runID[1]), ""))
    /\ \E ok \in BOOLEAN :
          IF ok /\ TempClaimName(runID[1]) \notin DOMAIN claims
          THEN /\ claims' = claims @@ (TempClaimName(runID[1]) :>
                               Stored(pvc[1].metadata.namespace,
                                      TemporaryClaim(pvc[1], pv[1], runID[1])))
               /\ Finish("ok", out)
          ELSE /\ claims' = claims
               /\ Finish("fault", out)
    /\ UNCHANGED <<pvs, clusterPods, jobs, pvc, pv, pods, runID, listed>>
    /\ UNCHANGED <<answers, invoked, claimReads, jobReads>>

(* Step 5: lines 191-247 *)

S5Create ==
    /\ pc = "s5_create"
    /\ calls' = Append(calls, Call("create", "job", JobName(runID[1]), ""))
    /\ \E ok \in BOOLEAN :
          IF ok /\ JobName(runID[1]) \notin DOMAIN jobs
          THEN /\ jobs' = jobs @@ (JobName(runID[1]) :> CopyJob(pvc[1], runID[1]))
               /\ pc' = "s5_read"
               /\ UNCHANGED <<i, out, prompts, results>>
          ELSE /\ jobs' = jobs
               /\ Finish("fault", out)
    /\ UNCHANGED <<claims, pvs, clusterPods, pvc, pv, pods, runID, listed>>
    /\ UNCHANGED <<answers, invoked, claimReads, jobReads>>

S5Read ==
    /\ pc = "s5_read"
    /\ Len(jobReads) < MaxJobReads
    /\ calls' = Append(calls, Call("read", "jobStatus", JobName(runID[1]), ""))
    /\ \E ok \in BOOLEAN, status \in JobStatuses :
          IF ok /\ JobName(runID[1]) \in DOMAIN jobs
          THEN LET result == JobWaitResult(status)
               IN  /\ jobReads' = Append(jobReads, status)
                   /\ IF result = "Pending"
                      THEN /\ out' = Append(out, Line("Waiting for the Job to complete", 0))
                           /\ UNCHANGED <<pc, i, prompts, results>>
                      ELSE Finish(Step5Return(result), Append(out, Line("\n", 0)))
          ELSE /\ UNCHANGED jobReads
               /\ Finish("fault", out)
    /\ UNCHANGED <<cluster, pvc, pv, pods, runID, listed>>
    /\ UNCHANGED <<answers, invoked, claimReads>>

(* Step 6: lines 248-251 *)

S6Delete ==
    /\ pc = "s6_delete"
    /\ calls' = Append(calls, Call("delete", "claim", TempClaimName(runID[1]), ""))
    /\ \E ok \in BOOLEAN :
          IF ok /\ TempClaimName(runID[1]) \in DOMAIN claims
          THEN /\ claims' = [claims EXCEPT ![TempClaimName(runID[1])].deleting = TRUE]
               /\ Finish("ok", out)
          ELSE /\ claims' = claims
               /\ Finish("fault", out)
    /\ UNCHANGED <<pvs, clusterPods, jobs, pvc, pv, pods, runID, listed>>
    /\ UNCHANGED <<answers, invoked, claimReads, jobReads>>

-----------------------------------------------------------------------------
(* The cluster's own moves, observed by the wait loop of step 2 *)

PodTerminates ==
    /\ \E k \in DOMAIN clusterPods :
          clusterPods' = SubSeq(clusterPods, 1, k - 1) \o SubSeq(clusterPods, k + 1, Len(clusterPods))
    /\ UNCHANGED <<claims, pvs, jobs, program, history>>

ClaimFinalized ==
    /\ \E n \in DOMAIN claims :
          /\ claims[n].deleting
          /\ getPodsMountingPVC(clusterPods, n) = <<>>
          /\ claims' = Without(claims, n)
    /\ UNCHANGED <<pvs, clusterPods, jobs, program, history>>

-----------------------------------------------------------------------------

Next ==
    \/ ReadClaim \/ ListVolumes \/ ListPods
    \/ Prompt
    \/ S1Patch
    \/ S2Delete \/ S2ListPods \/ S2Read
    \/ S3Create
    \/ S4Patch \/ S4Create
    \/ S5Create \/ S5Read
    \/ S6Delete
    \/ PodTerminates \/ ClaimFinalized

Spec == Init /\ [][Next]_vars

-----------------------------------------------------------------------------
(* The wait loops without a bound: lines 119-140 and 223-242.  Once the      *)
(* recorded reads have reached the bound, the loops go on polling and the    *)
(* iterations are no longer written to the history.                          *)

S2ListPodsUnrecorded ==
    /\ pc = "s2_listPods"
    /\ Len(claimReads) >= MaxDeletionReads
    /\ \E ok \in BOOLEAN :
          IF ok
          THEN /\ pods' = getPodsMountingPVC(clusterPods, pvcName)
               /\ pc' = "s2_read"
               /\ UNCHANGED <<i, out, prompts, results>>
          ELSE /\ pods' = pods
               /\ Finish("fault", out)
    /\ UNCHANGED <<cluster, pvc, pv, runID, listed>>
    /\ UNCHANGED <<calls, answers, invoked, claimReads, jobReads>>

S2ReadUnrecorded ==
    /\ pc = "s2_read"
    /\ Len(claimReads) >= MaxDeletionReads
    /\ \E failure \in BOOLEAN :
          LET read == IF failure THEN "error"
                      ELSE IF pvc[1].metadata.name \in DOMAIN claims THEN "exists"
                      ELSE "notfound"
              result == DeletionWaitResult(read)
          IN  IF result = "Succeeded" THEN Finish("ok", Append(out, Line("\n", 0)))
              ELSE IF result = "Pending"
                   THEN pc' = "s2_listPods" /\ UNCHANGED <<i, out, prompts, results>>
                   ELSE Finish("fault", out)
    /\ UNCHANGED <<cluster, pvc, pv, pods, runID, listed>>
    /\ UNCHANGED <<calls, answers, invoked, claimReads, jobReads>>

S5ReadUnrecorded ==
    /\ pc = "s5_read"
    /\ Len(jobReads) >= MaxJobReads
    /\ \E ok \in BOOLEAN, status \in JobStatuses :
          IF ok /\ JobName(runID[1]) \in DOMAIN jobs
          THEN LET result == JobWaitResult(status)
               IN  IF result = "Pending"
                   THEN UNCHANGED <<pc, i, out, prompts, results>>
                   ELSE Finish(Step5Return(result), Append(out, Line("\n", 0)))
          ELSE Finish("fault", out)
    /\ UNCHANGED <<cluster, pvc, pv, pods, runID, listed>>
    /\ UNCHANGED <<calls, answers, invoked, claimReads, jobReads>>

ProgramStep ==
    \/ ReadClaim \/ ListVolumes \/ ListPods
    \/ Prompt
    \/ S1Patch
    \/ S2Delete \/ S2ListPods \/ S2Read
    \/ S3Create
    \/ S4Patch \/ S4Create
    \/ S5Create \/ S5Read
    \/ S6Delete
    \/ S2ListPodsUnrecorded \/ S2ReadUnrecorded \/ S5ReadUnrecorded

NextLive ==
    \/ ReadClaim \/ ListVolumes \/ ListPods
    \/ Prompt
    \/ S1Patch
    \/ S2Delete \/ S2ListPods \/ S2Read
    \/ S3Create
    \/ S4Patch \/ S4Create
    \/ S5Create \/ S5Read
    \/ S6Delete
    \/ S2ListPodsUnrecorded \/ S2ReadUnrecorded \/ S5ReadUnrecorded
    \/ PodTerminates \/ ClaimFinalized

InitLive ==
    /\ Init
    /\ Len(pvs) <= 1

\* The read of step 2 that reports Not-Found, the read of step 5 that reports a
\* nonzero counter.
NotFoundReported == (S2Read \/ S2ReadUnrecorded) /\ results' # results

JobCounterReported == (S5Read \/ S5ReadUnrecorded) /\ pc' # "s5_read"

\* Every prompt is answered and every call returns; the pods go away and the
\* deleted claim is finalized and reported Not-Found; the job reports a nonzero
\* counter.
LiveSpec ==
    /\ InitLive
    /\ [][NextLive]_vars
    /\ WF_vars(ProgramStep)
    /\ WF_vars(PodTerminates)
    /\ WF_vars(ClaimFinalized)
    /\ SF_vars(NotFoundReported)
    /\ WF_vars(JobCounterReported)

\* The same program with no assumption on the cluster.
UnfairSpec == InitLive /\ [][NextLive]_vars /\ WF_vars(ProgramStep)

-----------------------------------------------------------------------------
(* Properties of the sequencer *)

Last(s) == s[Len(s)]

\* C1: the action of step k+1 is invoked only if the action of step k was
\* invoked earlier in the run and returned true; once a step has returned
\* false or thrown, no step action is invoked any more.
C1_NextOnlyAfterSuccess ==
    /\ Len(results) <= Len(invoked)
    /\ \A n \in DOMAIN invoked :
          invoked[n] > 0 =>
             \E m \in 1..(n - 1) : invoked[m] = invoked[n] - 1 /\ results[m] = "ok"
    /\ \A m \in DOMAIN results : results[m] # "ok" => Len(invoked) = m

C1_Witness ==
    /\ pc = "aborted"
    /\ Len(invoked) = 5
    /\ Last(results) = "fail"

\* C2: at the prompt of a step only the answer "Y" invokes the step; any other
\* answer ends the run at that step, and from then on the program issues no
\* call to the resource API and invokes no step.
C2_Declined ==
    /\ Len(answers) <= Len(prompts)
    /\ \A n \in DOMAIN answers :
          IF answers[n] = "Y"
          THEN n <= Len(invoked) /\ invoked[n] = prompts[n]
          ELSE n = Len(answers) /\ Len(invoked) = n - 1 /\ pc = "declined" /\ i = prompts[n]

C2_OnlyExactYProceeds ==
    /\ []C2_Declined
    /\ [][pc = "declined" => pc' = pc /\ calls' = calls /\ invoked' = invoked /\ prompts' = prompts]_vars

C2_Witness ==
    /\ pc = "declined"
    /\ answers = <<"Y", "Y", "Y ">>
    /\ Len(invoked) = 2

\* C3: every step action is invoked at most once, the invoked steps are the
\* steps 0..k of the plan in index order, and each invoked step was preceded
\* by exactly one prompt.
C3_PrefixInOrder ==
    /\ Len(invoked) <= NumSteps
    /\ \A n \in DOMAIN invoked : invoked[n] = n - 1
    /\ \A n \in DOMAIN prompts : prompts[n] = n - 1
    /\ Len(prompts) = Len(invoked) + (IF pc \in {"prompt", "declined"} THEN 1 ELSE 0)

C3_Witness ==
    /\ pc = "completed"
    /\ invoked = <<0, 1, 2, 3, 4, 5>>
    /\ prompts = <<0, 1, 2, 3, 4, 5>>

\* C4: a step that returns false or throws is caught by the loop at that step:
\* the run is aborted at step i with the report "Step i+1 failed", the fault does
\* not leave the loop, the transition to aborted changes nothing in the cluster
\* and the program issues no call afterwards.
C4_Aborted ==
    /\ \A m \in DOMAIN results :
          results[m] # "ok" =>
             /\ m = Len(results)
             /\ pc = "aborted"
             /\ i = invoked[m]
             /\ Last(out) = Line("Step failed. Quitting.", invoked[m] + 1)
    /\ pc = "aborted" => results # <<>> /\ Last(results) # "ok"
    /\ invoked # <<>> => pc # "crashed"

C4_FailureEndsRun ==
    /\ []C4_Aborted
    /\ [][pc # "aborted" /\ pc' = "aborted" => cluster' = cluster]_vars
    /\ [][pc = "aborted" => program' = program /\ calls' = calls /\ out' = out]_vars

C4_Witness ==
    /\ pc = "aborted"
    /\ i = 3
    /\ Last(results) = "fault"
    /\ Last(calls).op = "create"

-----------------------------------------------------------------------------
(* Properties of the deletion wait of step 2 *)

DeletionTicks ==
    Cardinality({n \in DOMAIN out : out[n].msg = "Waiting for the deletion to complete"})

DeletionReadCalls ==
    Cardinality({n \in DOMAIN calls : calls[n].op = "read" /\ calls[n].kind = "claim"}) - 1

Step2Succeeded == Len(results) >= 2 /\ results[2] = "ok"

\* C5: a re-read of the claim that fails with an error other than Not-Found
\* leaves the loop: it is the last read of the loop and step 2 ends the run
\* as failed.
C5_ErrorPropagates ==
    \A n \in DOMAIN claimReads :
       claimReads[n] = "error" =>
          /\ n = Len(claimReads)
          /\ pc = "aborted"
          /\ i = 1
          /\ results = <<"ok", "fault">>

\* C6 as stated: n reads that find the claim followed by Not-Found give
\* n progress reports and n+1 reads; <<exists, exists, notfound>> gives two.
C6_TicksEqualSuccessfulReads ==
    (Step2Succeeded /\ "error" \notin Range(claimReads)) =>
       LET n == Len(claimReads) - 1
       IN  /\ claimReads = Repeat("exists", n) \o <<"notfound">>
           /\ DeletionReadCalls = n + 1
           /\ DeletionTicks = n

\* C6 amended: n reads that find the claim followed by Not-Found give n+1
\* progress reports and n+1 reads, the loop ending on the read that reports
\* Not-Found; <<exists, exists, notfound>> gives three reports.
C6_OneTickPerRead ==
    (Step2Succeeded /\ "error" \notin Range(claimReads)) =>
       LET n == Len(claimReads) - 1
       IN  /\ claimReads = Repeat("exists", n) \o <<"notfound">>
           /\ DeletionReadCalls = n + 1
           /\ DeletionTicks = n + 1

C6_Witness ==
    /\ Step2Succeeded
    /\ claimReads = <<"exists", "exists", "notfound">>
    /\ DeletionTicks = 3

-----------------------------------------------------------------------------
(* Properties of the job wait of step 5 *)

StatusFailed(st) == st # None /\ st[1].failed # None /\ st[1].failed[1] > 0

StatusSucceeded(st) == st # None /\ st[1].succeeded # None /\ st[1].succeeded[1] > 0

\* C7: a read of the job status is Failed when failed > 0, else Succeeded when
\* succeeded > 0, else Pending (a missing status or counter counts as 0); the
\* loop ends on the first read that is not Pending and step 5 returns true only
\* for Succeeded.
C7_JobWaitOrder ==
    /\ \A n \in 1..(Len(jobReads) - 1) :
          ~StatusFailed(jobReads[n]) /\ ~StatusSucceeded(jobReads[n])
    /\ jobReads # <<>> =>
          LET st == Last(jobReads)
          IN  /\ StatusFailed(st) => Len(results) = 5 /\ results[5] = "fail"
              /\ (~StatusFailed(st) /\ StatusSucceeded(st)) => Len(results) >= 5 /\ results[5] = "ok"
              /\ (~StatusFailed(st) /\ ~StatusSucceeded(st)) =>
                    Len(results) = 4 \/ (Len(results) = 5 /\ results[5] = "fault")
    /\ (Len(results) >= 5 /\ results[5] = "ok") =>
          jobReads # <<>> /\ StatusSucceeded(Last(jobReads)) /\ ~StatusFailed(Last(jobReads))
    /\ jobReads = <<JobStatus(Some(0), Some(0)), JobStatus(Some(0), Some(0)), JobStatus(Some(0), Some(1))>>
          => Len(results) >= 5 /\ results[5] = "ok"
    /\ jobReads = <<JobStatus(Some(0), Some(0)), JobStatus(Some(1), Some(1))>>
          => results = <<"ok", "ok", "ok", "ok", "fail">>

C7_Witness ==
    /\ jobReads = <<JobStatus(Some(0), Some(0)), JobStatus(Some(0), Some(0)), JobStatus(Some(0), Some(1))>>
    /\ Len(results) = 5
    /\ results[5] = "ok"

-----------------------------------------------------------------------------
(* End-to-end properties *)

ClaimMigrated ==
    /\ pvcName \in DOMAIN claims
    /\ claims[pvcName].spec.storageClassName = Some(newStorageClassName)
    /\ claims[pvcName].metadata.uid = "uid-new-" \o pvcName

VolumeRetainedAndUnbound ==
    \E k \in DOMAIN pvs :
       /\ pvs[k].metadata.name = pv[1].metadata.name
       /\ pvs[k].spec.persistentVolumeReclaimPolicy = "Retain"
       /\ pvs[k].spec.claimRef = None

\* C8 as stated: at the end of a run in which the six steps succeeded the claim
\* has the target class, the volume is retained and unbound, and neither the
\* temporary claim nor the copy job exists.
C8_TemporariesAbsent ==
    pc = "completed" =>
       /\ results = <<"ok", "ok", "ok", "ok", "ok", "ok">>
       /\ ClaimMigrated
       /\ VolumeRetainedAndUnbound
       /\ TempClaimName(runID[1]) \notin DOMAIN claims
       /\ JobName(runID[1]) \notin DOMAIN jobs

\* C8 amended: at the end of such a run the claim has the target class, the
\* volume is retained and unbound, the deletion of the temporary claim has been
\* accepted (the claim is gone or terminating), and the copy job still exists:
\* no step deletes it.
C8_JobLeftBehind ==
    pc = "completed" =>
       /\ results = <<"ok", "ok", "ok", "ok", "ok", "ok">>
       /\ ClaimMigrated
       /\ VolumeRetainedAndUnbound
       /\ \/ TempClaimName(runID[1]) \notin DOMAIN claims
          \/ claims[TempClaimName(runID[1])].deleting
       /\ JobName(runID[1]) \in DOMAIN jobs
       /\ \A c \in Range(calls) : ~(c.op = "delete" /\ c.kind = "job")

C8_Witness ==
    /\ pc = "completed"
    /\ pv[1].metadata.name = "pv-1"
    /\ out[3] = Line("Here's what we've found", 0)
    /\ \A n \in DOMAIN answers : answers[n] = "Y"
    /\ StatusSucceeded(Last(jobReads))
    /\ claims[pvcName].spec.storageClassName = Some("fast")
    /\ TempClaimName(runID[1]) \notin DOMAIN claims

\* C9: when the job is read with failed > 0, the run is aborted at step 5,
\* step 6 is neither prompted for nor invoked, the replacement claim and the
\* temporary claim exist, and "Finished!" is not printed.
C9_JobFailureAborts ==
    (jobReads # <<>> /\ StatusFailed(Last(jobReads))) =>
       /\ pc = "aborted"
       /\ i = 4
       /\ Last(out) = Line("Step failed. Quitting.", 5)
       /\ 5 \notin Range(prompts)
       /\ 5 \notin Range(invoked)
       /\ ClaimMigrated
       /\ TempClaimName(runID[1]) \in DOMAIN claims
       /\ ~claims[TempClaimName(runID[1])].deleting
       /\ \A n \in DOMAIN out : out[n].msg # "Finished!"

C9_Witness ==
    /\ pc = "aborted"
    /\ jobReads = <<JobStatus(Some(0), Some(0)), JobStatus(Some(1), Some(0))>>
    /\ TempClaimName(runID[1]) \in DOMAIN claims

-----------------------------------------------------------------------------
(* Properties of discovery *)

VolumeMatches(v, claim) ==
    /\ v.status.phase = "Bound"
    /\ v.spec.claimRef # None
    /\ v.spec.claimRef[1].uid = claim.metadata.uid

DiscoveryFailed ==
    \/ pc # "readClaim" /\ pvc = None
    \/ listed # None /\ \A k \in DOMAIN listed[1] : ~VolumeMatches(listed[1][k], pvc[1])

\* C10: when the first read of the claim fails, or the listing holds no volume
\* that is Bound with a claim reference carrying the claim's uid, no plan is
\* printed, no prompt is presented and no patch, create or delete is issued.
C10_NoPlanWithoutVolume ==
    DiscoveryFailed =>
       /\ pc \in {"listPods", "exited", "crashed"}
       /\ prompts = <<>>
       /\ answers = <<>>
       /\ invoked = <<>>
       /\ \A n \in DOMAIN out : out[n].msg \notin {"If you approve", "Ready to run Step"}
       /\ \A c \in Range(calls) : ~Mutating(c)

C10_Witness ==
    /\ pc = "exited"
    /\ Len(listed[1]) = 2
    /\ Len(calls) = 3

\* C11: when the claim has been read and no Bound volume matches it, the
\* run prints a failure report before it ends: something more than
\* "Gathering info..." and "Done!".
C11_NoVolumeReported ==
    pc = "exited" => \E n \in DOMAIN out : out[n].msg \notin {"Gathering info...", "Done!"}

-----------------------------------------------------------------------------
(* Properties of the steps *)

Step3Succeeded == Len(results) >= 3 /\ results[3] = "ok"

HasReservedKey(e) == Len(e[1]) >= 17 /\ SubSeq(e[1], 1, 17) = "pv.kubernetes.io/"

\* C12: the annotations of the replacement claim are exactly the entries of
\* the source claim whose key does not start with "pv.kubernetes.io/", values
\* unchanged; {bound-by-controller: yes, team: infra} becomes {team: infra}.
C12_AnnotationsFiltered ==
    Step3Succeeded =>
       LET old == pvc[1].metadata.annotations[1]
           new == claims[pvcName].metadata.annotations
       IN  /\ new # None
           /\ \A e \in new[1] : e \in old /\ ~HasReservedKey(e)
           /\ \A e \in old : ~HasReservedKey(e) => e \in new[1]
           /\ old = {<<"pv.kubernetes.io/bound-by-controller", "yes">>, <<"team", "infra">>}
                 => new = Some({<<"team", "infra">>})

C12_Witness ==
    /\ Step3Succeeded
    /\ pvc[1].metadata.annotations =
          Some({<<"pv.kubernetes.io/bound-by-controller", "yes">>, <<"team", "infra">>})
    /\ claims[pvcName].metadata.annotations = Some({<<"team", "infra">>})

IsDeleteOfOriginal(c) == c.op = "delete" /\ c.kind = "claim" /\ c.name = pvcName

IsRetainPatch(c) ==
    /\ c.op = "patch"
    /\ c.kind = "volume"
    /\ c.name = pv[1].metadata.name
    /\ c.path = "replace /spec/persistentVolumeReclaimPolicy"

\* C13: whenever the delete of the original claim has been issued, the patch
\* that sets the volume's reclaim policy to Retain was issued before it and
\* succeeded; when that patch fails the original claim is never deleted.
C13_RetainBeforeDelete ==
    /\ \A n \in DOMAIN calls :
          IsDeleteOfOriginal(calls[n]) =>
             /\ \E m \in 1..(n - 1) : IsRetainPatch(calls[m])
             /\ results[1] = "ok"
             /\ \E k \in DOMAIN pvs :
                   /\ pvs[k].metadata.name = pv[1].metadata.name
                   /\ pvs[k].spec.persistentVolumeReclaimPolicy = "Retain"
    /\ (results # <<>> /\ results[1] # "ok") =>
          /\ \A n \in DOMAIN calls : ~IsDeleteOfOriginal(calls[n])
          /\ pvcName \in DOMAIN claims
          /\ ~claims[pvcName].deleting

C13_Witness ==
    /\ pc = "s2_listPods"
    /\ IsDeleteOfOriginal(Last(calls))
    /\ claims[pvcName].deleting

\* C14: the create of the replacement claim is issued only after a read of
\* the original claim returned Not-Found; the replacement has the name,
\* namespace and labels of the claim read at discovery and its spec, except
\* storageClassName (the target class) and volumeName (unset).
C14_ReplacementClaim ==
    /\ \A n \in DOMAIN calls :
          (calls[n].op = "create" /\ calls[n].kind = "claim" /\ calls[n].name = pvcName) =>
             /\ claimReads # <<>>
             /\ Last(claimReads) = "notfound"
             /\ \E m \in 1..(n - 1) : IsDeleteOfOriginal(calls[m])
    /\ Step3Succeeded =>
          LET old == pvc[1]
              new == claims[pvcName]
          IN  /\ new.metadata.name = old.metadata.name
              /\ new.metadata.namespace = old.metadata.namespace
              /\ new.metadata.labels = old.metadata.labels
              /\ DOMAIN new.spec = DOMAIN old.spec
              /\ \A f \in (DOMAIN old.spec) \ {"storageClassName", "volumeName"} :
                    new.spec[f] = old.spec[f]
              /\ new.spec.storageClassName = Some("fast")
              /\ new.spec.volumeName = None

C14_Witness ==
    /\ Step3Succeeded
    /\ claimReads = <<"exists", "notfound">>
    /\ claims[pvcName].spec.volumeName = None
    /\ pvc[1].spec.volumeName = Some("pv-1")

IsClaimRefPatch(c) ==
    /\ c.op = "patch"
    /\ c.kind = "volume"
    /\ c.name = pv[1].metadata.name
    /\ c.path = "remove /spec/claimRef"

IsCreateOfTemporary(c) == c.op = "create" /\ c.kind = "claim" /\ c.name # pvcName

\* C15: in step 4 the temporary claim is created only after the patch that
\* removes the volume's claim reference has succeeded; when the patch fails
\* the run is aborted at step 4 without a temporary claim.  The temporary
\* claim is named csc-<runID>-old-data, names the discovered volume and has the
\* storage class, access modes and resources of the original claim.
C15_TemporaryClaim ==
    /\ \A n \in DOMAIN calls :
          IsCreateOfTemporary(calls[n]) =>
             /\ n > 1
             /\ IsClaimRefPatch(calls[n - 1])
             /\ calls[n].name = "csc-" \o runID[1] \o "-old-data"
             /\ \E k \in DOMAIN pvs :
                   pvs[k].metadata.name = pv[1].metadata.name /\ pvs[k].spec.claimRef = None
    /\ (pc = "aborted" /\ i = 3 /\ IsClaimRefPatch(Last(calls))) =>
          \A n \in DOMAIN claims : n = pvcName
    /\ \A n \in DOMAIN claims :
          n # pvcName =>
             /\ n = "csc-" \o runID[1] \o "-old-data"
             /\ claims[n].metadata.name = n
             /\ claims[n].spec.volumeName = Some(pv[1].metadata.name)
             /\ claims[n].spec.storageClassName = Some("standard")
             /\ claims[n].spec.storageClassName = pvc[1].spec.storageClassName
             /\ claims[n].spec.accessModes = pvc[1].spec.accessModes
             /\ claims[n].spec.resources = pvc[1].spec.resources

C15_Witness ==
    /\ Len(results) = 4
    /\ results[4] = "ok"
    /\ runID = Some("r2")
    /\ "csc-r2-old-data" \in DOMAIN claims
    /\ claims["csc-r2-old-data"].spec.volumeName = Some("pv-2")

\* C16: the run token is set once and never changes; the temporary claim
\* created in step 4, the claim mounted as "old" by the job and the claim
\* deleted in step 6 have one name, the job created and the job polled have one
\* name, the job mounts the replacement claim as "new", and no name used by the
\* run is a name that a run with another token uses.
C16_NamesOfThisRun ==
    /\ runID = None => \A c \in Range(calls) : c.op \in {"read", "list"} /\ c.name \in {pvcName, "*", namespaceName}
    /\ runID # None =>
          LET temp == "csc-" \o runID[1] \o "-old-data"
              job  == "csc-" \o runID[1] \o "-copy-data"
          IN  /\ \A c \in Range(calls) :
                    /\ (c.kind = "claim" /\ c.name # pvcName) => c.name = temp
                    /\ c.kind \in {"job", "jobStatus"} => c.name = job
                    /\ \A other \in RunIDs \ {runID[1]} :
                          c.name \notin {TempClaimName(other), JobName(other)}
              /\ \A n \in DOMAIN jobs :
                    /\ n = job
                    /\ jobs[n].metadata.name = job
                    /\ jobs[n].spec.volumes.old = temp
                    /\ jobs[n].spec.volumes.new = pvcName
              /\ \A n \in DOMAIN claims : n \in {pvcName, temp}
              /\ \A other \in RunIDs \ {runID[1]} :
                    /\ TempClaimName(other) \notin DOMAIN claims
                    /\ JobName(other) \notin DOMAIN jobs

C16_RunTokenFixed ==
    /\ []C16_NamesOfThisRun
    /\ [][runID # None => runID' = runID]_vars

C16_Witness ==
    /\ pc = "completed"
    /\ runID = Some("r1")
    /\ "csc-r1-copy-data" \in DOMAIN jobs
    /\ \E n \in DOMAIN calls : calls[n] = Call("delete", "claim", "csc-r1-old-data", "")
    /\ \E n \in DOMAIN calls : calls[n] = Call("read", "jobStatus", "csc-r1-copy-data", "")

IsDeleteOfTemporary(c) == c.op = "delete" /\ c.kind = "claim" /\ c.name # pvcName

OnlyPatched(old, new) ==
    /\ new.metadata = old.metadata
    /\ new.status = old.status
    /\ new.spec.persistentVolumeReclaimPolicy \in {old.spec.persistentVolumeReclaimPolicy, "Retain"}
    /\ new.spec.claimRef \in {old.spec.claimRef, None}

\* C17: no delete is ever issued on a volume: the only deletes are one of the
\* original claim and one of the temporary claim, the only changes of the
\* discovered volume are the reclaim policy and the removal of the claim
\* reference, and the other volumes are left as they were listed.
C17_VolumesNeverDeleted ==
    /\ \A c \in Range(calls) :
          /\ c.op = "delete" => c.kind = "claim"
          /\ (c.kind = "volume" /\ Mutating(c)) => IsRetainPatch(c) \/ IsClaimRefPatch(c)
    /\ Cardinality({n \in DOMAIN calls : IsDeleteOfOriginal(calls[n])}) <= 1
    /\ Cardinality({n \in DOMAIN calls : IsDeleteOfTemporary(calls[n])}) <= 1
    /\ Cardinality({n \in DOMAIN calls : calls[n].op = "delete"})
          = (IF 1 \in Range(invoked) /\ pc # "s2_delete" THEN 1 ELSE 0)
            + (IF 5 \in Range(invoked) /\ pc # "s6_delete" THEN 1 ELSE 0)
    /\ listed # None =>
          /\ Len(pvs) = Len(listed[1])
          /\ \A k \in DOMAIN pvs :
                IF pv # None /\ pvs[k].metadata.name = pv[1].metadata.name
                THEN OnlyPatched(listed[1][k], pvs[k])
                ELSE pvs[k] = listed[1][k]

C17_Witness ==
    /\ pc = "completed"
    /\ Len(pvs) = 2
    /\ pv[1].metadata.name = "pv-1"
    /\ pvs[2].spec.claimRef # None
    /\ Cardinality({n \in DOMAIN calls : calls[n].op = "delete"}) = 2

\* C19: getPVForPVC returns the first volume of the listing that is Bound and
\* whose claim reference carries the uid of the claim, returns null when the
\* listing holds no such volume, and issues no mutating call.
C19_FirstBoundVolume ==
    listed # None =>
       LET items == listed[1]
           matching == {k \in DOMAIN items : VolumeMatches(items[k], pvc[1])}
       IN  /\ pv = None <=> matching = {}
           /\ pv # None =>
                 \E k \in matching :
                    /\ pv[1] = items[k]
                    /\ \A j \in matching : k <= j
           /\ \A k \in DOMAIN items :
                 (\/ items[k].status.phase # "Bound"
                  \/ items[k].spec.claimRef = None
                  \/ items[k].spec.claimRef[1].uid # "uid-data") => pv # Some(items[k])
           /\ pc = "listPods" => /\ pvs = items
                                 /\ \A c \in Range(calls) : ~Mutating(c)

C19_Witness ==
    /\ pc = "listPods"
    /\ Len(listed[1]) = 2
    /\ ~VolumeMatches(listed[1][1], pvc[1])
    /\ listed[1][1].spec.claimRef = Some([uid |-> "uid-data"])
    /\ pv = Some(listed[1][2])

\* C20: when the claim read at discovery has no annotations map, step 3 throws
\* before the create call: the run is aborted at step 3 with the original
\* claim deleted and no replacement claim.
C20_NoAnnotationsAbortsStep3 ==
    (pvc # None /\ pvc[1].metadata.annotations = None /\ Len(results) >= 3) =>
       /\ results = <<"ok", "ok", "fault">>
       /\ pc = "aborted"
       /\ i = 2
       /\ Last(out) = Line("Step failed. Quitting.", 3)
       /\ \A c \in Range(calls) : c.op # "create"
       /\ IsDeleteOfOriginal(Last(calls)) \/ Last(calls).op \in {"read", "list"}
       /\ Last(claimReads) = "notfound"
       /\ pvcName \notin DOMAIN claims

C20_Witness ==
    /\ pvc # None
    /\ pvc[1].metadata.annotations = None
    /\ pc = "aborted"
    /\ i = 2
    /\ claims = <<>>

-----------------------------------------------------------------------------
(* Termination *)

Terminated == pc \in {"completed", "aborted", "declined", "exited", "crashed"}

InDeletionWait == pc \in {"s2_listPods", "s2_read"}

\* C18: when every prompt is answered, every call returns, the deleted claim
\* is eventually reported Not-Found and the job eventually reports a nonzero
\* counter, the run ends.  The wait loops have no timeout: the loop of step 2
\* is left only when the claim is gone or the pod listing fails, the loop of
\* step 5 only by the return of step 5 or a failed read.
C18_Terminates ==
    /\ <>Terminated
    /\ [][(InDeletionWait /\ ~InDeletionWait') =>
             \/ pc' = "aborted" /\ pc = "s2_listPods"
             \/ pvcName \notin DOMAIN claims /\ pc = "s2_read" /\ Last(results') = "ok"]_vars
    /\ [][(pc = "s5_read" /\ pc' # "s5_read") =>
             \/ pc' = "aborted"
             \/ Len(results') = 5 /\ results'[5] = "ok"]_vars

\* C18, the run ends whatever the cluster does: refuted by a run that polls
\* for ever.
C18_TerminatesAnyway == <>Terminated

C18_Witness ==
    /\ pc = "completed"
    /\ Len(claimReads) = MaxDeletionReads
    /\ Last(claimReads) = "exists"
    /\ Len(jobReads) = MaxJobReads
    /\ ~StatusSucceeded(Last(jobReads))

====
